---- MODULE Spec2Model ----
(***************************************************************************)
(* Model of src/api/process.c, the Lua binding of reproc: the process      *)
(* handle (process_t), its methods, and the constructor process_new.       *)
(*                                                                         *)
(* reproc and the Lua C API are libraries outside the repository.  Each    *)
(* reproc call is an input: its result is drawn from a small set that      *)
(* holds every kind of result the binding distinguishes.  The Lua API      *)
(* calls are modelled by their reference-manual meaning.                   *)
(***************************************************************************)
EXTENDS Integers, Sequences, FiniteSets, TLC

VARIABLES
    self,            \* process_t: [process, running, returncode]
    last,            \* the latest method call: name, Lua results, native calls made
    nativeExit,      \* <<>> or <<c>>: first non-timeout result of reproc_wait (observer)
    waitsAfterExit,  \* reproc_wait calls made after nativeExit was set (observer)
    waitReturned,    \* <<>> or <<c>>: first exit status wait() returned to Lua (observer)
    waitTimedOut,    \* a wait() on the running handle has timed out (observer)
    steps,           \* number of method calls made so far
    destroys,        \* reproc_destroy calls made on the handle's reference (observer)
    call             \* process_new: its arguments, what it did, what it returned

vars == <<self, last, nativeExit, waitsAfterExit, waitReturned, waitTimedOut, steps,
          destroys, call>>

(***************************************************************************)
(* Bounds of the model.                                                    *)
(***************************************************************************)
MaxSteps == 3

(***************************************************************************)
(* reproc's constants (POSIX values: the negated errno).  process.c only   *)
(* names them; it relies on the errors being negative and distinct.        *)
(***************************************************************************)
REPROC_EINVAL == -22
REPROC_ETIMEDOUT == -110
REPROC_EPIPE == -32
REPROC_ENOMEM == -12
REPROC_EWOULDBLOCK == -11

REPROC_INFINITE == -1

REPROC_STREAM_IN == 0
REPROC_STREAM_OUT == 1
REPROC_STREAM_ERR == 2

REPROC_REDIRECT_DEFAULT == 0
REPROC_REDIRECT_PIPE == 1
REPROC_REDIRECT_PARENT == 2
REPROC_REDIRECT_DISCARD == 3
REPROC_REDIRECT_STDOUT == 4

READ_BUF_SIZE == 4096

NULL == 0
\* the reproc_t* that reproc_new returned for this handle
PROC == 1

(***************************************************************************)
(* Lua values a C function returns, as records of one shape.               *)
(*   ReprocError(c) is the triple nil, reproc_strerror(c), c.              *)
(***************************************************************************)
Nil == [tag |-> "nil", val |-> 0]
Number(n) == [tag |-> "number", val |-> n]
Boolean(b) == [tag |-> "boolean", val |-> IF b THEN 1 ELSE 0]
String(len) == [tag |-> "string", val |-> len]
Nothing == [tag |-> "none", val |-> 0]

\* L_RETURN_REPROC_ERROR
L_RETURN_REPROC_ERROR(code) == [tag |-> "error", val |-> code]

\* ASSERT_REPROC_ERRNO: returns the error triple exactly when code < 0
ASSERT_REPROC_ERRNO(code) == code < 0

(***************************************************************************)
(* Results the native calls can give.                                      *)
(***************************************************************************)
\* reproc_wait: timed out, an exit status, or a negative result
WaitResults == {REPROC_ETIMEDOUT, 0, 1, REPROC_EINVAL}
\* the timeout argument of wait(): 0 (default), a positive bound, no bound
Timeouts == {0, 50, REPROC_INFINITE}
\* reproc_terminate, reproc_kill, reproc_close
RequestResults == {0, REPROC_EINVAL}
\* reproc_read, reproc_write: a byte count or an error
ReadSizes == {READ_BUF_SIZE, 2}
IoResults == {0, 2, REPROC_EPIPE, REPROC_EWOULDBLOCK, REPROC_EINVAL}
Streams == {REPROC_STREAM_IN, REPROC_STREAM_OUT, REPROC_STREAM_ERR}

\* one native call: the function, the reproc_t* it was given, its other
\* arguments, and what it returned
Native(fn, proc, args, out) == [fn |-> fn, proc |-> proc, args |-> args, out |-> out]

(***************************************************************************)
(* poll_process: the handle after reproc_wait returned ret.                *)
(* The native call is made on every call, whatever proc.running is.        *)
(***************************************************************************)
poll_process_sticky(proc, ret) ==
    [proc EXCEPT !.running = FALSE, !.returncode = <<ret>>]

poll_process_revive(proc, ret) ==
    IF ret # REPROC_ETIMEDOUT
        THEN [proc EXCEPT !.running = FALSE, !.returncode = <<ret>>]
        ELSE [proc EXCEPT !.running = TRUE]

poll_process(proc, ret) ==
    IF ret # REPROC_ETIMEDOUT
        THEN [proc EXCEPT !.running = FALSE, !.returncode = <<ret>>]
        ELSE proc

\* the observers' step for one reproc_wait call that returned ret
Observe(ret) ==
    /\ nativeExit' = IF nativeExit = <<>> /\ ret # REPROC_ETIMEDOUT
                        THEN <<ret>> ELSE nativeExit
    /\ waitsAfterExit' = IF nativeExit # <<>> THEN waitsAfterExit + 1
                                             ELSE waitsAfterExit

NoPoll == UNCHANGED <<nativeExit, waitsAfterExit>>

Called(op, args, ret, natives) ==
    /\ last' = [op |-> op, args |-> args, ret |-> ret, natives |-> natives]
    /\ steps' = steps + 1
    /\ destroys' = destroys + Len(SelectSeq(natives, LAMBDA n : n.fn = "destroy"))
    /\ UNCHANGED call

(***************************************************************************)
(* The handle process_new leaves behind (lines 136-138): process and       *)
(* running are set, returncode is not written (<<>>: no value stored).     *)
(***************************************************************************)
NewHandle(proc) == [process |-> proc, running |-> TRUE, returncode |-> <<>>]

(***************************************************************************)
(* f_wait: poll with the caller's timeout; the timeout error when the      *)
(* native wait timed out, else the native result as a number.              *)
(***************************************************************************)
f_wait_result(ret) ==
    IF ret = REPROC_ETIMEDOUT /\ ASSERT_REPROC_ERRNO(ret)
        THEN L_RETURN_REPROC_ERROR(ret)
        ELSE Number(ret)

f_wait(timeout, ret) ==
    /\ steps < MaxSteps
    /\ self' = poll_process(self, ret)
    /\ Observe(ret)
    /\ waitReturned' = IF waitReturned = <<>> /\ f_wait_result(ret).tag = "number"
                          THEN <<f_wait_result(ret).val>> ELSE waitReturned
    /\ waitTimedOut' = (waitTimedOut \/ (self.running /\ ret = REPROC_ETIMEDOUT))
    /\ Called("wait", <<timeout>>, f_wait_result(ret),
              <<Native("wait", self.process, <<timeout>>, ret)>>)

(***************************************************************************)
(* f_running: poll with timeout 0, then the running flag.                  *)
(***************************************************************************)
f_running(ret) ==
    /\ steps < MaxSteps
    /\ self' = poll_process(self, ret)
    /\ Observe(ret)
    /\ UNCHANGED <<waitReturned, waitTimedOut>>
    /\ Called("running", <<>>, Boolean(self'.running),
              <<Native("wait", self.process, <<0>>, ret)>>)

(***************************************************************************)
(* f_returncode: poll with timeout 0; nil while running, else the value    *)
(* the poll returned (the local ret, not proc.returncode).                 *)
(***************************************************************************)
f_returncode_timeout == 0

f_returncode_result(proc, ret) ==
    IF proc.running THEN Nil ELSE Number(ret)

f_returncode(ret) ==
    /\ steps < MaxSteps
    /\ self' = poll_process(self, ret)
    /\ Observe(ret)
    /\ UNCHANGED <<waitReturned, waitTimedOut>>
    /\ Called("returncode", <<>>, f_returncode_result(self', ret),
              <<Native("wait", self.process, <<f_returncode_timeout>>, ret)>>)

(***************************************************************************)
(* f_terminate, f_kill: the native request; on a negative result the error *)
(* triple and no poll; else one poll with timeout 0 and true.              *)
(***************************************************************************)
Request_without_poll(op, out, ret) ==
    /\ steps < MaxSteps
    /\ UNCHANGED <<self, waitReturned, waitTimedOut>>
    /\ NoPoll
    /\ Called(op, <<>>,
              IF ASSERT_REPROC_ERRNO(out) THEN L_RETURN_REPROC_ERROR(out)
                                          ELSE Boolean(TRUE),
              <<Native(op, self.process, <<>>, out)>>)

Request(op, out, ret) ==
    /\ steps < MaxSteps
    /\ UNCHANGED <<waitReturned, waitTimedOut>>
    /\ IF ASSERT_REPROC_ERRNO(out)
          THEN /\ UNCHANGED self
               /\ NoPoll
               /\ Called(op, <<>>, L_RETURN_REPROC_ERROR(out),
                         <<Native(op, self.process, <<>>, out)>>)
          ELSE /\ self' = poll_process(self, ret)
               /\ Observe(ret)
               /\ Called(op, <<>>, Boolean(TRUE),
                         <<Native(op, self.process, <<>>, out),
                           Native("wait", self.process, <<0>>, ret)>>)

f_terminate(out, ret) == Request("terminate", out, ret)

f_kill(out, ret) == Request("kill", out, ret)

(***************************************************************************)
(* g_read: one reproc_read of up to read_size bytes.  The buffer holds out *)
(* bytes when out >= 0 and none otherwise; only REPROC_EPIPE is turned     *)
(* into the error triple.                                                  *)
(***************************************************************************)
g_read_result(out) ==
    IF out = REPROC_EPIPE /\ ASSERT_REPROC_ERRNO(out)
        THEN L_RETURN_REPROC_ERROR(out)
        ELSE String(IF out >= 0 THEN out ELSE 0)

g_read_marks_exit(op, stream, read_size, out) ==
    /\ steps < MaxSteps
    /\ out <= read_size
    /\ self' = IF out = REPROC_EPIPE THEN [self EXCEPT !.running = FALSE] ELSE self
    /\ UNCHANGED <<waitReturned, waitTimedOut>>
    /\ NoPoll
    /\ Called(op, <<stream, read_size>>, g_read_result(out),
              <<Native("read", self.process, <<stream, read_size>>, out)>>)

g_read(op, stream, read_size, out) ==
    /\ steps < MaxSteps
    /\ out <= read_size
    /\ UNCHANGED <<self, waitReturned, waitTimedOut>>
    /\ NoPoll
    /\ Called(op, <<stream, read_size>>, g_read_result(out),
              <<Native("read", self.process, <<stream, read_size>>, out)>>)

f_read_stdout(read_size, out) == g_read("read_stdout", REPROC_STREAM_OUT, read_size, out)

f_read_stderr(read_size, out) == g_read("read_stderr", REPROC_STREAM_ERR, read_size, out)

f_read(stream, read_size, out) == g_read("read", stream, read_size, out)

(***************************************************************************)
(* f_write: one reproc_write; REPROC_EPIPE is the error triple, any other  *)
(* result is returned as a number.                                         *)
(***************************************************************************)
f_write_result(out) ==
    IF out = REPROC_EPIPE THEN L_RETURN_REPROC_ERROR(out) ELSE Number(out)

f_write(data_size, out) ==
    /\ steps < MaxSteps
    /\ out <= data_size
    /\ UNCHANGED <<self, waitReturned, waitTimedOut>>
    /\ NoPoll
    /\ Called("write", <<data_size>>, f_write_result(out),
              <<Native("write", self.process, <<data_size>>, out)>>)

(***************************************************************************)
(* f_close_stream: reproc_close; the error triple on a negative result.    *)
(***************************************************************************)
f_close_stream_result(out) ==
    IF ASSERT_REPROC_ERRNO(out) THEN L_RETURN_REPROC_ERROR(out) ELSE Boolean(TRUE)

f_close_stream(stream, out) ==
    /\ steps < MaxSteps
    /\ UNCHANGED <<self, waitReturned, waitTimedOut>>
    /\ NoPoll
    /\ Called("close_stream", <<stream>>, f_close_stream_result(out),
              <<Native("close", self.process, <<stream>>, out)>>)

(***************************************************************************)
(* f_pid: reproc_pid, returned as a number.                                *)
(***************************************************************************)
Pids == {7}

f_pid(pid) ==
    /\ steps < MaxSteps
    /\ UNCHANGED <<self, waitReturned, waitTimedOut>>
    /\ NoPoll
    /\ Called("pid", <<>>, Number(pid), <<Native("pid", self.process, <<>>, pid)>>)

(***************************************************************************)
(* f_gc (__gc, also an entry of the method table): when the reference is   *)
(* held, reproc_stop with kill, kill, terminate (timeout 0 each), then     *)
(* reproc_destroy, then the reference is cleared.                          *)
(***************************************************************************)
REPROC_STOP_TERMINATE == 2
REPROC_STOP_KILL == 3

StopActions == <<REPROC_STOP_KILL, 0, REPROC_STOP_KILL, 0, REPROC_STOP_TERMINATE, 0>>

f_gc_keeps_reference ==
    /\ steps < MaxSteps
    /\ UNCHANGED <<self, waitReturned, waitTimedOut>>
    /\ NoPoll
    /\ IF self.process # NULL
          THEN Called("__gc", <<>>, Nothing,
                      <<Native("stop", self.process, StopActions, 0),
                        Native("destroy", self.process, <<>>, 0)>>)
          ELSE Called("__gc", <<>>, Nothing, <<>>)

f_gc ==
    /\ steps < MaxSteps
    /\ UNCHANGED <<waitReturned, waitTimedOut>>
    /\ NoPoll
    /\ IF self.process # NULL
          THEN /\ self' = [self EXCEPT !.process = NULL]
               /\ Called("__gc", <<>>, Nothing,
                         <<Native("stop", self.process, StopActions, 0),
                           Native("destroy", self.process, <<>>, 0)>>)
          ELSE /\ UNCHANGED self
               /\ Called("__gc", <<>>, Nothing, <<>>)

(***************************************************************************)
(* The handle's life: it starts as lines 136-138 of process_new leave it   *)
(* and any method of process_methods may be called on it, in any order.    *)
(* The methods do not depend on how the userdata came to be; that          *)
(* process_new as written raises before line 136 is the matter of SpecNew. *)
(***************************************************************************)
NoCall == [op |-> "none", args |-> <<>>, ret |-> Nothing, natives |-> <<>>]
NotCalled == [stage |-> "none"]

Init ==
    /\ self = NewHandle(PROC)
    /\ last = NoCall
    /\ nativeExit = <<>>
    /\ waitsAfterExit = 0
    /\ waitReturned = <<>>
    /\ waitTimedOut = FALSE
    /\ steps = 0
    /\ destroys = 0
    /\ call = NotCalled

Next ==
    \/ \E t \in Timeouts, ret \in WaitResults : f_wait(t, ret)
    \/ \E ret \in WaitResults : f_running(ret)
    \/ \E ret \in WaitResults : f_returncode(ret)
    \/ \E out \in RequestResults, ret \in WaitResults : f_terminate(out, ret)
    \/ \E out \in RequestResults, ret \in WaitResults : f_kill(out, ret)
    \/ \E s \in Streams, n \in ReadSizes, out \in IoResults : f_read(s, n, out)
    \/ \E n \in ReadSizes, out \in IoResults : f_read_stdout(n, out)
    \/ \E n \in ReadSizes, out \in IoResults : f_read_stderr(n, out)
    \/ \E n \in ReadSizes, out \in IoResults : f_write(n, out)
    \/ \E s \in Streams, out \in RequestResults : f_close_stream(s, out)
    \/ \E pid \in Pids : f_pid(pid)
    \/ f_gc

Spec == Init /\ [][Next]_vars

(***************************************************************************)
(* process_new.                                                            *)
(*                                                                         *)
(* A malloc'ed vector of char*: size slots, each unwritten, NULL or a      *)
(* string; oob collects the indexes written outside 0..size-1.             *)
(***************************************************************************)
MaxArgs == 2

Unwritten == [kind |-> "unwritten", text |-> ""]
NullSlot == [kind |-> "null", text |-> ""]
Str(text) == [kind |-> "str", text |-> text]

malloc(size) == [size |-> size, slot |-> [i \in 0..(size - 1) |-> Unwritten], oob |-> {}]

Store(vec, i, v) ==
    IF i \in 0..(vec.size - 1)
        THEN [vec EXCEPT !.slot[i] = v]
        ELSE [vec EXCEPT !.oob = @ \cup {i}]

\* lua_rawlen of a sequence table: its border
lua_rawlen(t) == Len(t)

\* lua_rawgeti: <<t[n]>>, or <<>> for nil (no such element)
lua_rawgeti(t, n) == IF n \in 1..Len(t) THEN <<t[n]>> ELSE <<>>

\* line 60
cmd_len(argv) == lua_rawlen(argv) + 1

(***************************************************************************)
(* Lines 65-70: for (i = 0; i < cmd_len; i++) cmd[i] = checkstring(t[i+1]) *)
(* luaL_checkstring raises a Lua error on nil.                             *)
(***************************************************************************)
RECURSIVE cmd_loop(_, _, _)
cmd_loop(argv, i, cmd) ==
    IF ~(i < cmd.size)
        THEN [raised |-> FALSE, cmd |-> cmd]
        ELSE IF lua_rawgeti(argv, i + 1) = <<>>
                THEN [raised |-> TRUE, cmd |-> cmd]
                ELSE cmd_loop(argv, i + 1, Store(cmd, i, Str(argv[i + 1])))

(***************************************************************************)
(* Lines 79-87: the redirect modes the constructor rejects.                *)
(***************************************************************************)
redirect_rejected(redirect_in, redirect_out, redirect_err) ==
    \/ redirect_in > REPROC_REDIRECT_STDOUT
    \/ redirect_out > REPROC_REDIRECT_STDOUT
    \/ redirect_err > REPROC_REDIRECT_STDOUT

(***************************************************************************)
(* Lines 89-112: the env vector.  overlay is the env table (key -> value), *)
(* order the sequence of its keys as lua_next yields them.                 *)
(*   lua_next leaves key, value; "=" and a copy of the key are pushed and  *)
(*   lua_concat(L, 3) joins the three topmost values, bottom first:        *)
(*   value, "=", key.                                                      *)
(***************************************************************************)
env_entry(key, value) == value \o "=" \o key

\* line 93-97
env_len(overlay) == 1 + Cardinality(DOMAIN overlay)

RECURSIVE env_loop(_, _, _, _)
env_loop(overlay, order, i, env) ==
    IF i >= Len(order)
        THEN env
        ELSE env_loop(overlay, order, i + 1,
                      Store(env, i, Str(env_entry(order[i + 1], overlay[order[i + 1]]))))

\* lines 99-112, the allocation having succeeded
env_build(overlay, order) ==
    env_loop(overlay, order, 0, Store(malloc(env_len(overlay)), env_len(overlay), NullSlot))

(***************************************************************************)
(* What reproc_start is handed as env.extra: the slots in order, as the    *)
(* callee reads them.  A slot the constructor never wrote holds whatever   *)
(* malloc left there (term); an entry whose Lua string was popped before a *)
(* later lua_concat is unanchored and may have been collected (freed).     *)
(***************************************************************************)
Handed(vec, term, freed) ==
    [i \in 1..vec.size |->
        IF vec.slot[i - 1].kind = "unwritten" THEN [kind |-> term, text |-> ""]
        ELSE IF (i - 1) \in freed THEN [kind |-> "freed", text |-> ""]
        ELSE vec.slot[i - 1]]

(***************************************************************************)
(* Lines 134-142: what the constructor returns for reproc_start's result.  *)
(***************************************************************************)
Userdata == [tag |-> "userdata", val |-> 0]
\* nil, "redirect to handles, FILE* and paths are not supported"
RedirectError == [tag |-> "invalid", val |-> 0]

start_return_always_handle(out) == Userdata

start_return(out) ==
    IF ASSERT_REPROC_ERRNO(out) THEN L_RETURN_REPROC_ERROR(out) ELSE Userdata

start_handle(out, proc) ==
    IF start_return(out) = Userdata THEN <<NewHandle(proc)>> ELSE <<>>

(***************************************************************************)
(* Lines 72-143: the constructor from the point where cmd is built.        *)
(*   opts: the redirect modes; overlay, order: the env table;              *)
(*   env_ok: malloc of env succeeded; out: reproc_start's result;          *)
(*   term, freed: see Handed.                                              *)
(***************************************************************************)
NoVec == malloc(0)

\* the constructor ended before any native call
Ended(stage, ret, cmd, env) ==
    [stage |-> stage, ret |-> ret, cmd |-> cmd, env |-> env, natives |-> <<>>,
     start_cmd |-> <<>>, start_env |-> <<>>, handle |-> <<>>]

process_new_options(cmd, opts, overlay, order, env_ok, out, term, freed) ==
    IF redirect_rejected(opts.stdin, opts.stdout, opts.stderr)
        THEN Ended("returned", RedirectError, cmd, NoVec)
    ELSE IF ~env_ok
        THEN Ended("returned", L_RETURN_REPROC_ERROR(REPROC_ENOMEM), cmd, NoVec)
    ELSE
        LET env == env_build(overlay, order) IN
        [stage |-> "returned",
         ret |-> start_return(out),
         cmd |-> cmd,
         env |-> env,
         natives |-> <<Native("new", NULL, <<>>, PROC),
                       Native("start", PROC, <<opts.stdin, opts.stdout, opts.stderr>>, out)>>,
         start_cmd |-> Handed(cmd, term, {}),
         start_env |-> Handed(env, term, freed),
         handle |-> start_handle(out, PROC)]

(***************************************************************************)
(* Lines 58-143: process_new.                                              *)
(*   cmd_ok: malloc of cmd succeeded; fault: the store at line 63, outside *)
(*   the allocation, brought the program down.                             *)
(* The loop of lines 65-70 runs i up to cmd_len - 1 = #argv, and element   *)
(* #argv + 1 of a table whose border is #argv is nil.                      *)
(***************************************************************************)
process_new_result(argv, opts, overlay, order, cmd_ok, fault, env_ok, out, term, freed) ==
    IF ~cmd_ok
        THEN Ended("returned", L_RETURN_REPROC_ERROR(REPROC_ENOMEM), NoVec, NoVec)
    ELSE
        LET cmd0 == Store(malloc(cmd_len(argv)), cmd_len(argv), NullSlot)
            loop == cmd_loop(argv, 0, cmd0)
        IN  IF cmd0.oob # {} /\ fault
                THEN Ended("crashed", Nothing, cmd0, NoVec)
            ELSE IF loop.raised
                THEN Ended("raised", Nothing, loop.cmd, NoVec)
            ELSE process_new_options(loop.cmd, opts, overlay, order, env_ok, out,
                                     term, freed)

(***************************************************************************)
(* Inputs of the constructor.                                              *)
(***************************************************************************)
Words == {"sh", "-c"}
Argvs == UNION {[1..n -> Words] : n \in 0..MaxArgs}
\* below the range, default, discard, stdout-merge, redirect to a handle
Modes == {REPROC_REDIRECT_DEFAULT - 1, REPROC_REDIRECT_DEFAULT, REPROC_REDIRECT_DISCARD,
          REPROC_REDIRECT_STDOUT, REPROC_REDIRECT_STDOUT + 1}
Options == [stdin : Modes, stdout : Modes, stderr : Modes]
Keys == {"FOO", "PATH"}
Values == {"bar"}
Overlays == UNION {[K -> Values] : K \in SUBSET Keys}
\* the sequences that list every key of the overlay once
Orders(overlay) ==
    {o \in UNION {[1..n -> DOMAIN overlay] : n \in {Cardinality(DOMAIN overlay)}} :
        \A i, j \in DOMAIN o : i # j => o[i] # o[j]}
StartResults == {0, REPROC_EINVAL}
Terms == {"null", "garbage"}
\* entries made before the last lua_concat
Freeable(overlay) == SUBSET (0..(Cardinality(DOMAIN overlay) - 2))

process_new ==
    /\ call.stage = "none"
    /\ \E argv \in Argvs, opts \in Options, overlay \in Overlays,
          cmd_ok \in BOOLEAN, fault \in BOOLEAN, env_ok \in BOOLEAN,
          out \in StartResults, term \in Terms :
         \E order \in Orders(overlay), freed \in Freeable(overlay) :
            call' = [stage |-> "new",
                     argv |-> argv, opts |-> opts, overlay |-> overlay, out |-> out,
                     cmd_ok |-> cmd_ok, env_ok |-> env_ok,
                     result |-> process_new_result(argv, opts, overlay, order, cmd_ok,
                                                   fault, env_ok, out, term, freed)]
    /\ UNCHANGED <<self, last, nativeExit, waitsAfterExit, waitReturned, waitTimedOut,
                   steps, destroys>>

SpecNew == Init /\ [][process_new]_vars

(***************************************************************************)
(* Lines 72-143 on their own, as a function of the options table and of    *)
(* what malloc and reproc_start return: the redirect check, the env        *)
(* vector, the start and the handle.  cmd is passed through to             *)
(* reproc_start untouched, so any vector stands for it.                    *)
(***************************************************************************)
SomeCmd == Store(Store(malloc(2), 0, Str("sh")), 1, NullSlot)

process_new_from_options ==
    /\ call.stage = "none"
    /\ \E opts \in Options, overlay \in Overlays, env_ok \in BOOLEAN,
          out \in StartResults, term \in Terms :
         \E order \in Orders(overlay), freed \in Freeable(overlay) :
            call' = [stage |-> "options",
                     argv |-> <<>>, opts |-> opts, overlay |-> overlay, out |-> out,
                     cmd_ok |-> TRUE, env_ok |-> env_ok,
                     result |-> process_new_options(SomeCmd, opts, overlay, order,
                                                    env_ok, out, term, freed)]
    /\ UNCHANGED <<self, last, nativeExit, waitsAfterExit, waitReturned, waitTimedOut,
                   steps, destroys>>

SpecOptions == Init /\ [][process_new_from_options]_vars

(***************************************************************************)
(* Helpers of the properties below.                                        *)
(***************************************************************************)
\* the reproc_wait calls the latest method call made
LastWaits == SelectSeq(last.natives, LAMBDA n : n.fn = "wait")

\* the step is a call of method op
IsCall(op) == steps' = steps + 1 /\ last'.op = op

TimeoutError == L_RETURN_REPROC_ERROR(REPROC_ETIMEDOUT)

(***************************************************************************)
(* C1: once a native wait on the handle has returned a non-timeout result  *)
(* (running has become false), no later method call invokes the native     *)
(* wait again: the number of native wait calls made after the first        *)
(* non-timeout result is zero.                                             *)
(***************************************************************************)
C1_NoNativeWaitAfterExit == waitsAfterExit = 0

(***************************************************************************)
(* C2: once wait() has returned an exit status c, every later wait() and   *)
(* returncode() returns c and every later running() returns false,         *)
(* whatever the native wait returns when queried again.                    *)
(***************************************************************************)
C2_ExitStatusIsStable ==
    waitReturned # <<>> =>
        /\ last.op \in {"wait", "returncode"} => last.ret = Number(waitReturned[1])
        /\ last.op = "running" => last.ret = Boolean(FALSE)

(***************************************************************************)
(* C3: a wait() on a Running handle whose native wait times out returns    *)
(* the timeout error triple and not a number, leaves the handle Running    *)
(* with no exit code stored; and a later wait() on that handle whose       *)
(* native wait gives an exit status returns it and stores it.              *)
(***************************************************************************)
C3_TimedOutWaitKeepsRunning ==
    [][(IsCall("wait") /\ self.running) =>
          LET out == last'.natives[1].out IN
          /\ out = REPROC_ETIMEDOUT =>
                /\ last'.ret = TimeoutError
                /\ last'.ret.tag # "number"
                /\ self'.running
                /\ self'.returncode = <<>>
                /\ self' = self
          /\ (waitTimedOut /\ out # REPROC_ETIMEDOUT) =>
                /\ last'.ret = Number(out)
                /\ ~self'.running
                /\ self'.returncode = <<out>>]_vars

\* a wait() timed out on the running handle and the latest wait() then
\* returned the first exit status the native layer gave
C3_Witness ==
    /\ waitTimedOut
    /\ last.op = "wait"
    /\ last.ret.tag = "number"
    /\ nativeExit = <<last.ret.val>>
    /\ waitsAfterExit = 0
    /\ self.returncode = <<last.ret.val>>

(***************************************************************************)
(* C4: running is false exactly when some native wait has returned a       *)
(* non-timeout result, and then returncode holds that result, the one that *)
(* ended the Running state; while running is true no exit code is stored;  *)
(* running and returncode only ever change together.                       *)
(***************************************************************************)
C4_RunningAndCodeChangeTogether ==
    [][/\ self'.running <=> nativeExit' = <<>>
       /\ ~self'.running => self'.returncode = nativeExit'
       /\ self'.running => self'.returncode = <<>>
       /\ (self'.running # self.running) <=> (self'.returncode # self.returncode)]_vars

(***************************************************************************)
(* C5: Exited is terminal: once running is false no method call makes it   *)
(* true again.                                                             *)
(***************************************************************************)
C5_ExitedIsTerminal == [][~self.running => ~self'.running]_vars

\* the handle has exited and a later poll, whose native wait timed out,
\* has run on it
C5_Witness ==
    /\ ~self.running
    /\ waitsAfterExit > 0
    /\ LastWaits # <<>>
    /\ LastWaits[1].out = REPROC_ETIMEDOUT

(***************************************************************************)
(* C10: returncode() returns nil when the handle is Running after its      *)
(* poll and otherwise the exit code stored in the handle, and every native *)
(* wait it makes has timeout 0.                                            *)
(***************************************************************************)
C10_ReturncodeIsStoredCode ==
    last.op = "returncode" =>
        /\ self.running => last.ret = Nil
        /\ ~self.running => last.ret = Number(self.returncode[1])
        /\ \A i \in 1..Len(LastWaits) : LastWaits[i].args = <<0>>

(***************************************************************************)
(* Helpers of the constructor's properties.                                *)
(***************************************************************************)
\* the modes the specification allows: default, pipe, parent, discard, and
\* stdout-merge for stderr alone
Supported ==
    {REPROC_REDIRECT_DEFAULT, REPROC_REDIRECT_PIPE, REPROC_REDIRECT_PARENT,
     REPROC_REDIRECT_DISCARD}

SupportedModes(opts) ==
    /\ opts.stdin \in Supported
    /\ opts.stdout \in Supported
    /\ opts.stderr \in Supported \cup {REPROC_REDIRECT_STDOUT}

\* reproc_start was called
Started == \E i \in DOMAIN call.result.natives : call.result.natives[i].fn = "start"

(***************************************************************************)
(* C6: constructing with a non-empty argv of n strings, supported redirect *)
(* modes and a native start that succeeds (the allocations succeeding      *)
(* too) returns a handle with running = true, and the native start is      *)
(* handed exactly the n argv strings in order, then the terminator.        *)
(***************************************************************************)
C6_ConstructionReturnsRunningHandle ==
    (/\ call.stage = "new"
     /\ Len(call.argv) > 0
     /\ SupportedModes(call.opts)
     /\ call.cmd_ok /\ call.env_ok
     /\ call.out >= 0)
    => /\ call.result.stage = "returned"
       /\ call.result.ret = Userdata
       /\ call.result.handle # <<>>
       /\ call.result.handle[1].running
       /\ Started
       /\ call.result.start_cmd =
             [i \in 1..(Len(call.argv) + 1) |->
                 IF i <= Len(call.argv) THEN Str(call.argv[i]) ELSE NullSlot]

(***************************************************************************)
(* C7: whenever a redirect mode is outside default, pipe, parent, discard  *)
(* (stdout-merge being accepted for stderr only), construction is rejected *)
(* with the validation error and no native call is made (stated for the    *)
(* calls whose allocations succeed).                                       *)
(***************************************************************************)
C7_UnsupportedRedirectRejected ==
    (call.stage = "options" /\ call.env_ok /\ ~SupportedModes(call.opts))
    => /\ call.result.ret = RedirectError
       /\ call.result.natives = <<>>

(***************************************************************************)
(* C8: the env list handed to the native start holds, for each overlay     *)
(* pair (k, v), exactly one entry k "=" v, one entry per key, and nothing  *)
(* else before its terminator.                                             *)
(***************************************************************************)
C8_EnvEntriesAreKeyEqualsValue ==
    (call.stage = "options" /\ Started)
    => LET m == Cardinality(DOMAIN call.overlay)
           env == call.result.start_env
       IN  /\ Len(env) >= m + 1
           /\ \A k \in DOMAIN call.overlay :
                 Cardinality({i \in 1..m :
                     env[i] = Str(k \o "=" \o call.overlay[k])}) = 1
           /\ env[m + 1] = NullSlot

(***************************************************************************)
(* C9: when the native start returns a negative code, the constructor      *)
(* returns the error triple with that code and no handle is made.          *)
(***************************************************************************)
C9_FailedStartMakesNoHandle ==
    (call.stage = "options" /\ Started /\ call.out < 0)
    => /\ call.result.ret = L_RETURN_REPROC_ERROR(call.out)
       /\ call.result.handle = <<>>

\* reproc_start was called, returned a negative code, and the constructor
\* returned
C9_Witness ==
    /\ call.stage = "options"
    /\ Started
    /\ call.out < 0
    /\ call.result.stage = "returned"
    /\ call.result.ret.tag = "error"

(***************************************************************************)
(* C11 as claimed: terminate() and kill() each make their native request   *)
(* and then one poll with timeout 0 before returning, and what they return *)
(* (true, or the error triple of a negative request code) depends on the   *)
(* request alone.                                                          *)
(***************************************************************************)
IsRequest == steps' = steps + 1 /\ last'.op \in {"terminate", "kill"}

RequestReturn(out) ==
    IF out < 0 THEN L_RETURN_REPROC_ERROR(out) ELSE Boolean(TRUE)

C11_RequestAlwaysPolls ==
    [][IsRequest =>
          /\ Len(last'.natives) = 2
          /\ last'.natives[1].fn = last'.op
          /\ last'.natives[2].fn = "wait"
          /\ last'.natives[2].args = <<0>>
          /\ last'.ret = RequestReturn(last'.natives[1].out)]_vars

(***************************************************************************)
(* C11 as amended: when the native request returns a non-negative code,    *)
(* one poll with timeout 0 follows it, its result is recorded in the       *)
(* handle, and true is returned whatever the poll gave; when the request   *)
(* returns a negative code the error triple is returned, no poll is made   *)
(* and the handle is left as it was.                                       *)
(***************************************************************************)
C11_RequestPollsOnSuccess ==
    [][IsRequest =>
          LET out == last'.natives[1].out IN
          /\ last'.natives[1].fn = last'.op
          /\ last'.ret = RequestReturn(out)
          /\ out >= 0 =>
                /\ Len(last'.natives) = 2
                /\ last'.natives[2].fn = "wait"
                /\ last'.natives[2].args = <<0>>
                /\ last'.natives[2].out # REPROC_ETIMEDOUT =>
                      /\ ~self'.running
                      /\ self'.returncode = <<last'.natives[2].out>>
                /\ last'.natives[2].out = REPROC_ETIMEDOUT => self' = self
          /\ out < 0 =>
                /\ Len(last'.natives) = 1
                /\ self' = self]_vars

\* terminate() was called on the running handle, its poll found the process
\* exited, and the handle records it
C11_Witness ==
    /\ last.op = "terminate"
    /\ last.ret = Boolean(TRUE)
    /\ Len(last.natives) = 2
    /\ nativeExit = <<last.natives[2].out>>
    /\ waitsAfterExit = 0
    /\ ~self.running

(***************************************************************************)
(* C12: the finalizer, when the reference is held, calls the native stop   *)
(* with kill, kill, terminate (timeout 0 each), then the native destroy,   *)
(* and clears the reference; when the reference is empty it makes no       *)
(* native call; so the reference is destroyed at most once.                *)
(***************************************************************************)
C12_FinalizerDestroysOnce ==
    [][IsCall("__gc") =>
          /\ self.process # NULL =>
                /\ last'.natives =
                      <<Native("stop", self.process,
                               <<REPROC_STOP_KILL, 0, REPROC_STOP_KILL, 0,
                                 REPROC_STOP_TERMINATE, 0>>, 0),
                        Native("destroy", self.process, <<>>, 0)>>
                /\ self'.process = NULL
          /\ self.process = NULL =>
                /\ last'.natives = <<>>
                /\ self' = self
          /\ destroys' <= 1]_vars

\* the finalizer ran a second time, on the cleared reference
C12_Witness ==
    /\ last.op = "__gc"
    /\ last.natives = <<>>
    /\ destroys = 1
    /\ self.process = NULL

(***************************************************************************)
(* C13: read, read_stdout, read_stderr, write and close_stream leave       *)
(* running and returncode as they were, whatever the native call returns.  *)
(***************************************************************************)
StreamOps == {"read", "read_stdout", "read_stderr", "write", "close_stream"}

C13_StreamOpsKeepStatus ==
    [][(steps' = steps + 1 /\ last'.op \in StreamOps) =>
          /\ self'.running = self.running
          /\ self'.returncode = self.returncode]_vars

\* a read met a broken pipe and the handle is still Running
C13_Witness ==
    /\ last.op \in {"read", "read_stdout", "read_stderr"}
    /\ last.natives[1].out = REPROC_EPIPE
    /\ last.ret = L_RETURN_REPROC_ERROR(REPROC_EPIPE)
    /\ self.running

(***************************************************************************)
(* C14: every negative code the native layer returns to read, write or     *)
(* close_stream comes back as the error triple with that code, except      *)
(* would-block on read, which gives zero-length data.                      *)
(***************************************************************************)
C14_NegativeResultsAreErrors ==
    (last.op \in StreamOps /\ last.natives[1].out < 0)
    => IF last.op \in {"read", "read_stdout", "read_stderr"}
            /\ last.natives[1].out = REPROC_EWOULDBLOCK
          THEN last.ret = String(0)
          ELSE last.ret = L_RETURN_REPROC_ERROR(last.natives[1].out)

(***************************************************************************)
(* C17: no native call is ever given an empty reference, in any order of   *)
(* method calls, the finalizer included.                                   *)
(***************************************************************************)
C17_NativeReferenceNeverNull ==
    \A i \in DOMAIN last.natives : last.natives[i].proc # NULL

WellFormed(vec, count) ==
    /\ vec.size = count + 1
    /\ vec.oob = {}
    /\ vec.slot[count] = NullSlot
    /\ \A i \in 0..(count - 1) : vec.slot[i].kind = "str"

C16_VectorsTerminatedInBounds ==
    (call.stage = "new" /\ call.cmd_ok)
    => /\ WellFormed(call.result.cmd, Len(call.argv))
       /\ call.result.env.size > 0 =>
             WellFormed(call.result.env, Cardinality(DOMAIN call.overlay))

(***************************************************************************)
(* C18: every native process object the constructor creates is released    *)
(* exactly once; when no handle is returned to own it (the native start    *)
(* failed), it has been destroyed by the time the constructor returns.     *)
(***************************************************************************)
NativeCalls(fn) == Len(SelectSeq(call.result.natives, LAMBDA n : n.fn = fn))

C18_FailedStartReleasesObject ==
    (call.stage = "options" /\ call.result.handle = <<>>)
    => NativeCalls("new") = NativeCalls("destroy")

====
